---- MODULE Spec2Model ----
(***************************************************************************)
(* Model of multi_send_eth.py: the NonceManager, the send_eth retry loop,  *)
(* the wait_for_receipt poller and run()'s ThreadPoolExecutor dispatch,    *)
(* with the SIGINT/SIGTERM handler and the failed-transaction file.        *)
(***************************************************************************)
EXTENDS Integers, Sequences, FiniteSets

\* ---------------------------------------------------------------- bounds
NumWallets == 2           \* wallets handed to run()
MaxWorkers == 2           \* largest CONFIG.max_workers tried
MaxPendingCount == 1      \* how far the remote pending count may advance

\* Config (lines 58 and 61), scaled down
max_send_retries == 2
max_receipt_retries == 2

Wallets == 1..NumWallets
Accounts == {"A", "B"}

\* the wallet lists tried: the first wallet sends from A, the others from A or B
WalletLists == {w \in [Wallets -> Accounts] : w[1] = "A"}

\* content of the failed-transactions file left by an earlier run
OldContent == <<0>>

VARIABLES
    wallets,      \* run's argument: wallets[i] is wallet i's from_address
    max_workers,  \* CONFIG.max_workers
    pending,      \* remote: last value of get_transaction_count(address, "pending")
    nonces,       \* NonceManager._nonces (a dict: DOMAIN = known addresses)
    lockOwner,    \* NonceManager._lock: 0 = free, else the holding wallet task
    stopEvent,    \* STOP_EVENT
    mainPc,       \* position of the main thread in run()/_graceful_exit
    submitted,    \* number of wallets handed to executor.submit so far
    pc,           \* position of each wallet's pipeline
    attempt,      \* send_eth: loop variable attempt
    pollAttempt,  \* wait_for_receipt: loop variable attempt
    txNonce,      \* build_tx: tx["nonce"] (-1 when none is held)
    sendRet,      \* process_wallet: what send_eth returned or raised
    ret,          \* future outcome: "none", "True", "False", "exc"
    exitAt,       \* history: which return/raise ended send_eth
    success,      \* run: success
    failed,       \* run: failed (sequence of wallets)
    collected,    \* futures already yielded by as_completed
    failedFile,   \* content of CONFIG.failed_tx_file
    tmpFile,      \* content of the .tmp file of atomic_write
    subLog,       \* history: outcome of every send_raw_transaction call
    allocEpoch,   \* history: values returned by next() since the last reset
    allocEver,    \* history: values ever returned by next()
    rejSeen,      \* history: conflict rejections not yet followed by a query
    allocRej,     \* history: rejSeen[account] when the wallet last allocated
    pollLog,      \* history: outcome of every get_transaction_receipt call
    begunAtStop,  \* history: wallets whose pipeline had begun at the signal
    lateSend,     \* history: "armed" when next() returned after the signal,
                  \*          "sent" when that value was then submitted
    sentLogged,   \* history: the "Sent <hash>" line of the current attempt
    queryUnderLock \* history: the lock holder queried the remote count

vars == <<wallets, max_workers, pending, nonces, lockOwner, stopEvent,
          mainPc, submitted, pc, attempt, pollAttempt, txNonce, sendRet, ret,
          exitAt, success, failed, collected, failedFile, tmpFile, subLog,
          allocEpoch, allocEver, rejSeen, allocRej, pollLog, begunAtStop,
          lateSend, sentLogged, queryUnderLock>>

\* wallet["from_address"] (line 244)
from_address(i) == wallets[i]

envVars == <<wallets, max_workers, pending>>
nonceVars == <<nonces, lockOwner>>
mainVars == <<stopEvent, mainPc, submitted, success, failed, collected,
              failedFile, tmpFile>>
histVars == <<subLog, allocEpoch, allocEver, rejSeen, allocRej>>
evtVars == <<pollLog, begunAtStop, lateSend, sentLogged, queryUnderLock>>

\* ------------------------------------------------------------- helpers
Active == {"next", "incr", "send", "reset", "sleep", "pcall", "psleep",
           "ret"}

Running == {i \in Wallets : pc[i] \in Active}

\* mutant: the tests of STOP_EVENT never see the signal
is_set_Never == FALSE

\* STOP_EVENT.is_set()
is_set == stopEvent

\* mutant: next and reset run without taking the lock
LockFree_NoLock == TRUE

\* acquiring NonceManager._lock (with self._lock)
LockFree == lockOwner = 0

\* mutant: the lock is never released
Released_Leak(i) == lockOwner

\* leaving "with self._lock": the holder releases the lock
Released(i) == IF lockOwner = i THEN 0 ELSE lockOwner

\* mutant: one thread per submitted task
ThreadAvailable_Unbounded == TRUE

\* ThreadPoolExecutor(CONFIG.max_workers): a task starts on an idle thread
ThreadAvailable == Cardinality(Running) < max_workers

\* mutant: the loop stops one attempt early
MoreSendAttempts_Short(a) == a < max_send_retries - 1

\* range(1, CONFIG.max_send_retries + 1) has a further iteration
MoreSendAttempts(a) == a < max_send_retries

\* range(1, CONFIG.max_receipt_retries + 1) has a further iteration
MorePolls(a) == a < max_receipt_retries

\* mutant: "insufficient funds" is retried like a transient error
Classify_RetryFatal(outcome) ==
    CASE outcome = "ok" -> "wait"
      [] outcome = "conflict" -> "reset"
      [] outcome = "rejected" -> "rejected"
      [] OTHER -> "retry"

\* mutant: a nonce conflict is retried without NONCES.reset
Classify_NoReset(outcome) ==
    CASE outcome = "ok" -> "wait"
      [] outcome = "insufficient" -> "fatal"
      [] outcome = "rejected" -> "rejected"
      [] OTHER -> "retry"

\* mutant: an accepted transaction goes to the next attempt, not to the wait
Classify_RetryAccepted(outcome) ==
    CASE outcome = "insufficient" -> "fatal"
      [] outcome = "conflict" -> "reset"
      [] outcome = "rejected" -> "rejected"
      [] OTHER -> "retry"

\* send_eth's except clauses: what follows each send_raw_transaction outcome
Classify(outcome) ==
    CASE outcome = "ok" -> "wait"
      [] outcome = "insufficient" -> "fatal"
      [] outcome = "conflict" -> "reset"
      [] outcome = "rejected" -> "rejected"
      [] OTHER -> "retry"

SendOutcomes == {"ok", "insufficient", "conflict", "rejected", "transient"}

\* what send_eth hands back at each of its exits: the receipt at line 259/188,
\* the exception of NONCES.reset, None everywhere else
ReturnValue(how) ==
    CASE how = "receipt" -> "receipt"
      [] how = "raised" -> "raised"
      [] OTHER -> "None"

\* process_wallet: "if receipt: return True", else False
process_wallet(r) == r = "receipt"

\* what the future holds once the task has ended
FutureOf(r) ==
    IF r = "raised" THEN "exc"
    ELSE IF process_wallet(r) THEN "True" ELSE "False"

\* send_eth returns to process_wallet (line 344)
Finish(i, how) ==
    /\ pc' = [pc EXCEPT ![i] = "ret"]
    /\ exitAt' = [exitAt EXCEPT ![i] = how]
    /\ sendRet' = [sendRet EXCEPT ![i] = ReturnValue(how)]
    /\ UNCHANGED <<ret, attempt, pollAttempt>>

\* ---------------------------------------------------------------- Init
Init ==
    /\ wallets \in WalletLists
    /\ max_workers \in 1..MaxWorkers
    /\ pending = [a \in Accounts |-> 0]
    /\ nonces = [a \in {} |-> 0]
    /\ lockOwner = 0
    /\ stopEvent = FALSE
    /\ mainPc = "submit"
    /\ submitted = 0
    /\ pc = [i \in Wallets |-> "idle"]
    /\ attempt = [i \in Wallets |-> 0]
    /\ pollAttempt = [i \in Wallets |-> 0]
    /\ txNonce = [i \in Wallets |-> -1]
    /\ sendRet = [i \in Wallets |-> "none"]
    /\ ret = [i \in Wallets |-> "none"]
    /\ exitAt = [i \in Wallets |-> "none"]
    /\ success = 0
    /\ failed = <<>>
    /\ collected = {}
    /\ failedFile = OldContent
    /\ tmpFile = <<>>
    /\ subLog = [i \in Wallets |-> <<>>]
    /\ allocEpoch = [a \in Accounts |-> {}]
    /\ allocEver = [a \in Accounts |-> {}]
    /\ rejSeen = [a \in Accounts |-> {}]
    /\ allocRej = [i \in Wallets |-> {}]
    /\ pollLog = [i \in Wallets |-> <<>>]
    /\ begunAtStop = {}
    /\ lateSend = [i \in Wallets |-> "no"]
    /\ sentLogged = [i \in Wallets |-> FALSE]
    /\ queryUnderLock = [i \in Wallets |-> FALSE]

\* ------------------------------------------------------------- remote
\* w3.eth.get_transaction_count(address, "pending") can return v: the count
\* never goes back, and other senders may have raised it since the last query
CountNow(a) == pending[a]..MaxPendingCount

\* --------------------------------------------------- worker: send_eth
\* a pool thread picks the wallet's task: process_wallet -> send_eth, up to
\* the first "if STOP_EVENT.is_set(): return None" (line 247)
worker_start(i) ==
    /\ pc[i] = "queued"
    /\ \A j \in Wallets : j < i => pc[j] # "queued"
    /\ ThreadAvailable
    /\ IF is_set
         THEN Finish(i, "stop_send")
         ELSE /\ pc' = [pc EXCEPT ![i] = "next"]
              /\ attempt' = [attempt EXCEPT ![i] = 1]
              /\ UNCHANGED <<sendRet, ret, exitAt, pollAttempt>>
    /\ UNCHANGED <<envVars, nonceVars, mainVars, histVars, evtVars, txNonce>>

\* mutant: next() queries the remote on every call
Unseen_Always(a) == TRUE

\* NonceManager.next, line 158: "if address not in self._nonces"
Unseen(a) == a \notin DOMAIN nonces

\* NonceManager.next, lines 157-160: take the lock, query the remote for an
\* unseen address, read the cached value.  The query may raise: the lock is
\* released and send_eth's "except Exception" sends the attempt to the sleep.
NonceManager_next_enter(i) ==
    LET a == from_address(i) IN
    /\ pc[i] = "next"
    /\ LockFree
    /\ \/ /\ Unseen(a)
          /\ \E v \in CountNow(a) :
               /\ pending' = [pending EXCEPT ![a] = v]
               /\ nonces' = [x \in DOMAIN nonces \cup {a} |->
                               IF x = a THEN v ELSE nonces[x]]
               /\ txNonce' = [txNonce EXCEPT ![i] = v]
          /\ rejSeen' = [rejSeen EXCEPT ![a] = {}]
          /\ allocRej' = [allocRej EXCEPT ![i] = {}]
          /\ lockOwner' = i
          /\ queryUnderLock' = [queryUnderLock EXCEPT ![i] = TRUE]
          /\ pc' = [pc EXCEPT ![i] = "incr"]
       \/ /\ Unseen(a)
          /\ pc' = [pc EXCEPT ![i] = "sleep"]
          /\ UNCHANGED <<pending, nonces, rejSeen, allocRej, txNonce,
                         lockOwner, queryUnderLock>>
       \/ /\ ~Unseen(a)
          /\ txNonce' = [txNonce EXCEPT ![i] = nonces[a]]
          /\ allocRej' = [allocRej EXCEPT ![i] = rejSeen[a]]
          /\ lockOwner' = i
          /\ pc' = [pc EXCEPT ![i] = "incr"]
          /\ UNCHANGED <<pending, nonces, rejSeen, queryUnderLock>>
    /\ UNCHANGED <<wallets, max_workers, mainVars, subLog, allocEpoch,
                   allocEver, attempt, pollAttempt, sendRet, ret, exitAt,
                   pollLog, begunAtStop, lateSend, sentLogged>>

\* NonceManager.next, lines 161-162: increment, return, release the lock
NonceManager_next_exit(i) ==
    LET a == from_address(i) IN
    /\ pc[i] = "incr"
    /\ nonces' = [nonces EXCEPT ![a] = @ + 1]
    /\ lockOwner' = Released(i)
    /\ allocEpoch' = [allocEpoch EXCEPT ![a] = @ \cup {txNonce[i]}]
    /\ allocEver' = [allocEver EXCEPT ![a] = @ \cup {txNonce[i]}]
    /\ allocRej' = [allocRej EXCEPT ![i] = {}]
    /\ queryUnderLock' = [queryUnderLock EXCEPT ![i] = FALSE]
    /\ lateSend' = [lateSend EXCEPT ![i] = IF is_set THEN "armed" ELSE "no"]
    /\ pc' = [pc EXCEPT ![i] = "send"]
    /\ UNCHANGED <<envVars, mainVars, subLog, rejSeen, attempt,
                   pollAttempt, txNonce, sendRet, ret, exitAt, pollLog,
                   begunAtStop, sentLogged>>

\* mutant: the "Sent" line is not written before wait_for_receipt is called
LogsSent_Never(outcome) == FALSE

\* lines 252-257: logging.info("Sent ...") runs when send_raw_transaction
\* returned a hash, before "return wait_for_receipt(tx_hash)"
LogsSent(outcome) == outcome = "ok"

\* sign and w3.eth.send_raw_transaction with the except clauses (251-274);
\* an accepted transaction goes on into wait_for_receipt up to its first
\* "if STOP_EVENT.is_set(): return None" (line 182)
send_raw_transaction(i) ==
    LET a == from_address(i) IN
    /\ pc[i] = "send"
    /\ \E o \in SendOutcomes :
        /\ subLog' = [subLog EXCEPT ![i] = Append(@, o)]
        /\ txNonce' = [txNonce EXCEPT ![i] = -1]
        /\ rejSeen' = IF o = "conflict"
                         THEN [rejSeen EXCEPT ![a] = @ \cup {i}]
                         ELSE rejSeen
        /\ lateSend' = [lateSend EXCEPT ![i] =
                           IF @ = "armed" THEN "sent" ELSE "no"]
        /\ sentLogged' = [sentLogged EXCEPT ![i] = LogsSent(o)]
        /\ CASE Classify(o) = "wait" ->
                  IF is_set
                    THEN /\ Finish(i, "stop_poll")
                    ELSE /\ pc' = [pc EXCEPT ![i] = "pcall"]
                         /\ pollAttempt' = [pollAttempt EXCEPT ![i] = 1]
                         /\ UNCHANGED <<sendRet, ret, exitAt, attempt>>
             [] Classify(o) = "fatal" ->
                  Finish(i, "insufficient")
             [] Classify(o) = "rejected" ->
                  Finish(i, "rejected")
             [] Classify(o) = "reset" ->
                  /\ pc' = [pc EXCEPT ![i] = "reset"]
                  /\ UNCHANGED <<pollAttempt, sendRet, ret, exitAt, attempt>>
             [] OTHER ->
                  /\ pc' = [pc EXCEPT ![i] = "sleep"]
                  /\ UNCHANGED <<pollAttempt, sendRet, ret, exitAt, attempt>>
    /\ UNCHANGED <<envVars, nonceVars, mainVars, allocEpoch, allocEver,
                   allocRej, pollLog, begunAtStop, queryUnderLock>>

\* NonceManager.reset (164-167), called from the except clause: the query
\* runs under the lock; if it raises, the exception leaves send_eth and
\* process_wallet, and the future holds the exception
NonceManager_reset(i) ==
    LET a == from_address(i) IN
    /\ pc[i] = "reset"
    /\ LockFree
    /\ \/ /\ \E v \in CountNow(a) :
               /\ pending' = [pending EXCEPT ![a] = v]
               /\ nonces' = [x \in DOMAIN nonces \cup {a} |->
                               IF x = a THEN v ELSE nonces[x]]
          /\ allocEpoch' = [allocEpoch EXCEPT ![a] = {}]
          /\ rejSeen' = [rejSeen EXCEPT ![a] = {}]
          /\ pc' = [pc EXCEPT ![i] = "sleep"]
          /\ UNCHANGED <<sendRet, ret, exitAt, attempt, pollAttempt>>
       \/ /\ Finish(i, "raised")
          /\ UNCHANGED <<pending, nonces, allocEpoch, rejSeen>>
    /\ UNCHANGED <<wallets, max_workers, lockOwner, mainVars, subLog,
                   allocEver, allocRej, txNonce, evtVars>>

\* time.sleep(backoff(1.0, attempt)) returns; then line 278, or the next
\* iteration up to its "if STOP_EVENT.is_set(): return None"
send_eth_sleep(i) ==
    /\ pc[i] = "sleep"
    /\ IF ~MoreSendAttempts(attempt[i])
         THEN Finish(i, "exhausted")
         ELSE IF is_set
                THEN Finish(i, "stop_send")
                ELSE /\ attempt' = [attempt EXCEPT ![i] = @ + 1]
                     /\ pc' = [pc EXCEPT ![i] = "next"]
                     /\ UNCHANGED <<sendRet, ret, exitAt, pollAttempt>>
    /\ UNCHANGED <<envVars, nonceVars, mainVars, histVars, evtVars, txNonce>>

\* ------------------------------------------- worker: wait_for_receipt
\* w3.eth.get_transaction_receipt: a receipt, TransactionNotFound (or a
\* falsy answer), or another exception
PollOutcomes == {"receipt", "notfound", "error"}

\* mutant: "except Exception" gives the polling up
AfterPoll_ErrorEnds(outcome) ==
    CASE outcome = "receipt" -> "receipt"
      [] outcome = "error" -> "timeout"
      [] OTHER -> "sleep"

\* lines 185-194: a receipt is returned (wait_for_receipt ends with it);
\* "except TransactionNotFound: pass" and "except Exception: logging.warning"
\* both go on to the sleep
AfterPoll(outcome) ==
    CASE outcome = "receipt" -> "receipt"
      [] OTHER -> "sleep"

\* one call of w3.eth.get_transaction_receipt (line 185) and its handling
get_transaction_receipt(i) ==
    /\ pc[i] = "pcall"
    /\ \E o \in PollOutcomes :
        /\ pollLog' = [pollLog EXCEPT ![i] = Append(@, o)]
        /\ IF AfterPoll(o) = "sleep"
             THEN /\ pc' = [pc EXCEPT ![i] = "psleep"]
                  /\ UNCHANGED <<sendRet, ret, exitAt, attempt, pollAttempt>>
             ELSE Finish(i, AfterPoll(o))
    /\ UNCHANGED <<envVars, nonceVars, mainVars, histVars, txNonce,
                   begunAtStop, lateSend, sentLogged, queryUnderLock>>

\* time.sleep(backoff(...)) returns; then "Receipt timeout" (196-197), or the
\* next iteration up to its "if STOP_EVENT.is_set(): return None"
wait_for_receipt_sleep(i) ==
    /\ pc[i] = "psleep"
    /\ IF ~MorePolls(pollAttempt[i])
         THEN Finish(i, "timeout")
         ELSE IF is_set
                THEN Finish(i, "stop_poll")
                ELSE /\ pollAttempt' = [pollAttempt EXCEPT ![i] = @ + 1]
                     /\ pc' = [pc EXCEPT ![i] = "pcall"]
                     /\ UNCHANGED <<sendRet, ret, exitAt, attempt>>
    /\ UNCHANGED <<envVars, nonceVars, mainVars, histVars, evtVars, txNonce>>

\* process_wallet, lines 345-352 (or the exception passing through it): the
\* future gets True, False or the exception; the locals and the attempt
\* record are dropped
process_wallet_return(i) ==
    /\ pc[i] = "ret"
    /\ pc' = [pc EXCEPT ![i] = "done"]
    /\ ret' = [ret EXCEPT ![i] = FutureOf(sendRet[i])]
    /\ sendRet' = [sendRet EXCEPT ![i] = "none"]
    /\ attempt' = [attempt EXCEPT ![i] = 0]
    /\ pollAttempt' = [pollAttempt EXCEPT ![i] = 0]
    /\ subLog' = [subLog EXCEPT ![i] = <<>>]
    /\ pollLog' = [pollLog EXCEPT ![i] = <<>>]
    /\ lateSend' = [lateSend EXCEPT ![i] = "no"]
    /\ sentLogged' = [sentLogged EXCEPT ![i] = FALSE]
    /\ UNCHANGED <<envVars, nonceVars, mainVars, allocEpoch, allocEver,
                   rejSeen, allocRej, txNonce, exitAt, begunAtStop,
                   queryUnderLock>>

\* ------------------------------------------------------ main thread: run
\* futures = {executor.submit(process_wallet, w): w for w in wallets}
executor_submit ==
    /\ mainPc = "submit"
    /\ submitted < NumWallets
    /\ pc' = [pc EXCEPT ![submitted + 1] = "queued"]
    /\ submitted' = submitted + 1
    /\ mainPc' = IF submitted + 1 = NumWallets THEN "collect" ELSE "submit"
    /\ UNCHANGED <<envVars, nonceVars, histVars, evtVars, stopEvent, success,
                   failed, collected, failedFile, tmpFile, attempt,
                   pollAttempt, txNonce, sendRet, ret, exitAt>>

\* mutant: a worker exception is logged but the wallet is not appended
Tally_DropException(i) ==
    IF ret[i] = "True"
      THEN /\ success' = success + 1
           /\ UNCHANGED failed
      ELSE IF ret[i] = "exc"
             THEN UNCHANGED <<success, failed>>
             ELSE /\ failed' = Append(failed, i)
                  /\ UNCHANGED success

\* the body of "for fut in as_completed(futures)" for one finished future
Tally(i) ==
    IF ret[i] = "True"
      THEN /\ success' = success + 1
           /\ UNCHANGED failed
      ELSE /\ failed' = Append(failed, i)
           /\ UNCHANGED success

as_completed(i) ==
    /\ mainPc = "collect"
    /\ pc[i] = "done"
    /\ i \notin collected
    /\ Tally(i)
    /\ collected' = collected \cup {i}
    /\ UNCHANGED <<envVars, nonceVars, histVars, evtVars, stopEvent, mainPc,
                   submitted, failedFile, tmpFile, pc, attempt, pollAttempt,
                   txNonce, sendRet, ret,
                   exitAt>>

\* as_completed is exhausted; the with block ends: executor.shutdown(wait=True)
executor_shutdown ==
    /\ mainPc = "collect"
    /\ collected = Wallets
    /\ Running = {}
    /\ mainPc' = "save"
    /\ UNCHANGED <<envVars, nonceVars, histVars, evtVars, stopEvent, submitted,
                   success, failed, collected, failedFile, tmpFile, pc,
                   attempt, pollAttempt, txNonce, sendRet, ret,
                   exitAt>>

\* save_failed(failed): "if not wallets: return", else atomic_write
save_failed ==
    /\ mainPc = "save"
    /\ mainPc' = IF failed = <<>> THEN "done" ELSE "write"
    /\ UNCHANGED <<envVars, nonceVars, histVars, evtVars, stopEvent, submitted,
                   success, failed, collected, failedFile, tmpFile, pc,
                   attempt, pollAttempt, txNonce, sendRet, ret,
                   exitAt>>

\* what a crash in the middle of write_text leaves in the file written to
PartialContent == <<-1>>

\* mutant: the data is written straight to the failure file
TmpPath_InPlace == "path"

\* atomic_write: tmp = path.with_suffix(".tmp"), a file beside the target
TmpPath == "tmp"

\* write_text puts content into the file at TmpPath
WriteText(content) ==
    /\ tmpFile' = IF TmpPath = "tmp" THEN content ELSE tmpFile
    /\ failedFile' = IF TmpPath = "tmp" THEN failedFile ELSE content

\* atomic_write: tmp.write_text(data) opens the file and starts writing; an
\* OSError is caught by save_failed
atomic_write_tmp ==
    /\ mainPc = "write"
    /\ \/ /\ WriteText(PartialContent)
          /\ mainPc' = "writing"
       \/ /\ mainPc' = "done"
          /\ UNCHANGED <<tmpFile, failedFile>>
    /\ UNCHANGED <<envVars, nonceVars, histVars, evtVars, stopEvent, submitted,
                   success, failed, collected, pc, attempt, pollAttempt,
                   txNonce, sendRet, ret, exitAt>>

\* atomic_write: tmp.write_text(data) writes the rest and closes the file
atomic_write_flush ==
    /\ mainPc = "writing"
    /\ WriteText(failed)
    /\ mainPc' = "replace"
    /\ UNCHANGED <<envVars, nonceVars, histVars, evtVars, stopEvent, submitted,
                   success, failed, collected, pc, attempt, pollAttempt,
                   txNonce, sendRet, ret, exitAt>>

\* atomic_write: tmp.replace(path), one rename
atomic_write_replace ==
    /\ mainPc = "replace"
    /\ failedFile' = IF TmpPath = "tmp" THEN tmpFile ELSE failedFile
    /\ tmpFile' = <<>>
    /\ mainPc' = "done"
    /\ UNCHANGED <<envVars, nonceVars, histVars, evtVars, stopEvent, submitted,
                   success, failed, collected, pc, attempt, pollAttempt,
                   txNonce, sendRet, ret, exitAt>>

\* the process dies (kill, power loss) at some step of atomic_write
crash ==
    /\ mainPc \in {"write", "writing", "replace"}
    /\ mainPc' = "crashed"
    /\ UNCHANGED <<envVars, nonceVars, histVars, evtVars, stopEvent, submitted,
                   success, failed, collected, failedFile, tmpFile, pc,
                   attempt, pollAttempt, txNonce, sendRet, ret, exitAt>>

\* ------------------------------------------------- main thread: signal
\* _graceful_exit runs in the main thread while it is inside the with block:
\* STOP_EVENT.set(); sys.exit(0) raises SystemExit there
graceful_exit ==
    /\ mainPc \in {"submit", "collect"}
    /\ stopEvent' = TRUE
    /\ mainPc' = "unwind"
    /\ begunAtStop' = {i \in Wallets : pc[i] \notin {"idle", "queued"}}
    /\ UNCHANGED <<envVars, nonceVars, histVars, submitted, success,
                   failed, collected, failedFile, tmpFile, pc, attempt,
                   pollAttempt, txNonce, sendRet, ret, exitAt, pollLog,
                   lateSend, sentLogged, queryUnderLock>>

\* SystemExit leaves the with block: executor.shutdown(wait=True) joins the
\* pool threads (queued tasks still run), then the exception leaves run()
\* past save_failed and the process exits
shutdown_on_exit ==
    /\ mainPc = "unwind"
    /\ \A i \in Wallets : pc[i] \in {"idle", "done"}
    /\ mainPc' = "exited"
    /\ UNCHANGED <<envVars, nonceVars, histVars, evtVars, stopEvent, submitted,
                   success, failed, collected, failedFile, tmpFile, pc,
                   attempt, pollAttempt, txNonce, sendRet, ret,
                   exitAt>>

\* ------------------------------------------------------------ the system
WorkerStep(i) ==
    \/ worker_start(i)
    \/ NonceManager_next_enter(i)
    \/ NonceManager_next_exit(i)
    \/ send_raw_transaction(i)
    \/ NonceManager_reset(i)
    \/ send_eth_sleep(i)
    \/ get_transaction_receipt(i)
    \/ wait_for_receipt_sleep(i)
    \/ process_wallet_return(i)

MainStep ==
    \/ executor_submit
    \/ \E i \in Wallets : as_completed(i)
    \/ executor_shutdown
    \/ save_failed
    \/ atomic_write_tmp
    \/ atomic_write_flush
    \/ atomic_write_replace
    \/ shutdown_on_exit

Next ==
    \/ \E i \in Wallets : WorkerStep(i)
    \/ MainStep
    \/ graceful_exit
    \/ crash

Spec == Init /\ [][Next]_vars

\* threads are scheduled, remote calls and sleeps return
FairSpec ==
    /\ Spec
    /\ \A i \in Wallets : WF_vars(WorkerStep(i))
    /\ WF_vars(MainStep)

TypeOK ==
    /\ mainPc \in {"submit", "collect", "save", "write", "writing",
                   "replace", "done", "unwind", "exited", "crashed"}
    /\ \A i \in Wallets : pc[i] \in Active \cup {"idle", "queued", "done"}
    /\ lockOwner \in 0..NumWallets
    /\ begunAtStop \subseteq Wallets
    /\ \A i \in Wallets :
        /\ lateSend[i] \in {"no", "armed", "sent"}
        /\ sentLogged[i] \in BOOLEAN
        /\ queryUnderLock[i] \in BOOLEAN
        /\ \A k \in 1..Len(pollLog[i]) : pollLog[i][k] \in PollOutcomes

\* ================================================================ claims
Occurrences(q, x) == Cardinality({k \in 1..Len(q) : q[k] = x})

Outcomes(i) == {subLog[i][k] : k \in 1..Len(subLog[i])}

\* the log is K transient failures followed by one accepted submission
TransientThenOk(q) ==
    /\ Len(q) >= 1
    /\ q[Len(q)] = "ok"
    /\ \A k \in 1..(Len(q) - 1) : q[k] = "transient"

RunReturned == mainPc \in {"save", "write", "writing", "replace", "done"}

\* C1: with no reset in between, the values next() returns for one account
\* are pairwise distinct: the value a worker is about to return was returned
\* to nobody since the account's last reset.
C1_DistinctAllocations ==
    \A i \in Wallets :
        pc[i] = "incr" => txNonce[i] \notin allocEpoch[from_address(i)]

\* two workers of one account hold numbers of the same epoch at the same time
C1_Witness ==
    \E i, j \in Wallets :
        /\ i # j
        /\ from_address(i) = from_address(j)
        /\ pc[i] = "send"
        /\ pc[j] = "incr"
        /\ txNonce[i] \in allocEpoch[from_address(i)]
        /\ txNonce[j] # txNonce[i]

\* C2 (as claimed): a value next() returned for an account is never returned
\* again for that account, resets included.
C2_NeverReused ==
    \A i \in Wallets :
        pc[i] = "incr" => txNonce[i] \notin allocEver[from_address(i)]

\* C3 (as claimed): once a conflict rejection has arrived for an account, no
\* allocation for that account reads the cache before a query refreshed it.
C3_NextAllocationFresh ==
    \A i \in Wallets : pc[i] = "incr" => allocRej[i] = {}

\* C3 (amended): the rejected request's own next allocation follows a query
\* made after its rejection; an allocation that still reads the old cache is
\* another worker's, made while the rejected one has not yet run its reset
\* or after that reset's query raised.
C3_OwnNextAllocationFresh ==
    \A i \in Wallets :
        pc[i] = "incr" =>
            \A j \in allocRej[i] :
                /\ j # i
                /\ pc[j] = "reset" \/ exitAt[j] = "raised"

\* a rejected request allocates again after its reset has queried the remote
C3_Witness ==
    \E i \in Wallets :
        /\ pc[i] = "incr"
        /\ attempt[i] = 2
        /\ subLog[i] = <<"conflict">>
        /\ allocRej[i] = {}

\* C4: after an "insufficient funds" rejection no further submission is made
\* for the request (the rejection is the last call in its log and send_eth
\* has returned), and the list run hands to save_failed holds it exactly once.
C4_FatalNoRetryListedOnce ==
    \A i \in Wallets :
        /\ "insufficient" \in Outcomes(i) =>
              /\ subLog[i][Len(subLog[i])] = "insufficient"
              /\ Occurrences(subLog[i], "insufficient") = 1
              /\ pc[i] = "ret"
              /\ exitAt[i] = "insufficient"
        /\ exitAt[i] = "insufficient" => pc[i] \in {"ret", "done"}
        /\ (mainPc = "save" /\ exitAt[i] = "insufficient") =>
              Occurrences(failed, i) = 1

C4_Witness ==
    \E i \in Wallets :
        /\ mainPc = "save"
        /\ exitAt[i] = "insufficient"
        /\ Occurrences(failed, i) = 1

\* C5: a request whose submissions fail transiently K times and are then
\* accepted and confirmed made exactly K + 1 submission calls, with
\* K < max_send_retries, and ends as a success; send_eth gives up for
\* exhaustion only after max_send_retries attempts.
C5_TransientThenSuccess ==
    \A i \in Wallets :
        pc[i] = "ret" =>
            /\ (exitAt[i] = "receipt" /\ TransientThenOk(subLog[i])) =>
                  /\ Occurrences(subLog[i], "transient") < max_send_retries
                  /\ Len(subLog[i]) = Occurrences(subLog[i], "transient") + 1
                  /\ FutureOf(sendRet[i]) = "True"
            /\ exitAt[i] = "exhausted" => attempt[i] = max_send_retries

\* K = max_send_retries - 1 transient failures, then success
C5_Witness ==
    \E i \in Wallets :
        /\ pc[i] = "ret"
        /\ exitAt[i] = "receipt"
        /\ TransientThenOk(subLog[i])
        /\ Len(subLog[i]) = max_send_retries
        /\ FutureOf(sendRet[i]) = "True"

\* C6 (as claimed): what is recorded for a request that timed out in
\* wait_for_receipt differs from what is recorded for a fatally rejected one.
C6_TimeoutDistinguishable ==
    \A i, j \in Wallets :
        (/\ exitAt[i] = "timeout"
         /\ exitAt[j] = "insufficient"
         /\ pc[i] = "done"
         /\ pc[j] = "done") => ret[i] # ret[j]

\* C7: the number of pipelines running at once never exceeds max_workers.
C7_BoundedConcurrency == Cardinality(Running) <= max_workers

\* the limit is binding: a submitted task waits while the only thread is busy
C7_Witness ==
    /\ max_workers < NumWallets
    /\ Cardinality(Running) = max_workers
    /\ \E i \in Wallets : pc[i] = "queued"

\* C8: when run gets past the with block, every wallet is counted exactly
\* once: in success if its future held True, in failed otherwise.
C8_EveryRequestCounted ==
    RunReturned =>
        /\ success + Len(failed) = NumWallets
        /\ success = Cardinality({i \in Wallets : ret[i] = "True"})
        /\ \A i \in Wallets :
              Occurrences(failed, i) = IF ret[i] = "True" THEN 0 ELSE 1

\* a run with a success and a worker exception
C8_Witness ==
    /\ mainPc = "save"
    /\ \E i, j \in Wallets : ret[i] = "True" /\ ret[j] = "exc"

\* C9 (as claimed): after a signal during dispatch, the failures collected so
\* far are in the failed-transactions file when the process exits.
C9_CancelPersistsFailures ==
    (mainPc = "exited" /\ failed # <<>>) => failedFile = failed

\* C10: once the signal is set, every pipeline returns and the exit completes.
C10_CancelTerminates ==
    stopEvent ~> (mainPc = "exited" /\ \A i \in Wallets : pc[i] \in {"idle", "done"})

\* after a signal: one pipeline stopped in polling, one stopped before sending
C10_Witness ==
    /\ mainPc = "exited"
    /\ \E i, j \in Wallets :
          exitAt[i] = "stop_poll" /\ exitAt[j] = "stop_send"

\* C11 (as claimed): a run that reaches its end has put its failure list into
\* the failed-transactions file; when no request failed, the file holds the
\* empty list.
C11_FailureListPersisted ==
    (mainPc = "done" /\ failed = <<>>) => failedFile = <<>>

\* C12: at every step of atomic_write, crashes included, the failure file
\* holds its complete previous content or the complete new list.
C12_AtomicReplace ==
    \/ failedFile = OldContent
    \/ failedFile = failed /\ mainPc = "done"

\* a crash in the middle of write_text: the partial data is in the .tmp file
C12_Witness ==
    /\ mainPc = "crashed"
    /\ tmpFile = PartialContent
    /\ failedFile = OldContent

\* the submission errors send_eth answers with another attempt
Retryable == {"conflict", "transient"}

\* C13 (as claimed): send_eth makes at most max_send_retries submission calls,
\* and a request that was not cancelled and whose every attempt ended in a
\* retryable error fails only after exactly max_send_retries attempts.
C13_ExactlyMaxAttempts ==
    \A i \in Wallets :
        /\ Len(subLog[i]) <= max_send_retries
        /\ attempt[i] <= max_send_retries
        /\ (pc[i] = "ret" /\ Outcomes(i) \subseteq Retryable
                          /\ exitAt[i] # "stop_send")
              => (exitAt[i] = "exhausted" /\ attempt[i] = max_send_retries)

\* C14: wait_for_receipt makes at most max_receipt_retries polls; each poll,
\* a failed query as much as "not found", uses up one of them and is followed
\* by the sleep; short of cancellation the polling ends only with a receipt
\* (the last poll) or with the timeout after max_receipt_retries polls.
C14_PollBudget ==
    \A i \in Wallets :
        /\ Len(pollLog[i]) <= max_receipt_retries
        /\ pc[i] = "pcall" => Len(pollLog[i]) = pollAttempt[i] - 1
        /\ pc[i] = "psleep" =>
              /\ Len(pollLog[i]) = pollAttempt[i]
              /\ pollLog[i][Len(pollLog[i])] \in {"notfound", "error"}
        /\ \A k \in 1..(Len(pollLog[i]) - 1) : pollLog[i][k] # "receipt"
        /\ (pc[i] = "ret" /\ pollLog[i] # <<>>) =>
              /\ exitAt[i] \in {"receipt", "timeout", "stop_poll"}
              /\ exitAt[i] = "receipt" <=>
                    pollLog[i][Len(pollLog[i])] = "receipt"
              /\ exitAt[i] = "timeout" =>
                    Len(pollLog[i]) = max_receipt_retries

\* a failed query on the first poll, then a poll that finds the receipt
C14_Witness ==
    \E i \in Wallets :
        /\ pc[i] = "ret"
        /\ exitAt[i] = "receipt"
        /\ pollLog[i] = <<"error", "receipt">>

\* C15: once STOP_EVENT is set, a request whose pipeline had not begun at
\* that moment takes no nonce and makes no submission: if its task still
\* starts, it returns at send_eth's first test of the signal.
C15_NoNewPipeline ==
    stopEvent =>
        \A i \in Wallets \ begunAtStop :
            /\ pc[i] \in {"idle", "queued", "ret", "done"}
            /\ txNonce[i] = -1
            /\ subLog[i] = <<>>
            /\ pollLog[i] = <<>>
            /\ exitAt[i] \in {"none", "stop_send"}

\* a task still queued at the signal is started by the pool and returns None
\* at once, while a pipeline begun before the signal is still under way
C15_Witness ==
    /\ stopEvent
    /\ \E i \in Wallets \ begunAtStop :
        /\ pc[i] = "ret"
        /\ exitAt[i] = "stop_send"
    /\ \E j \in begunAtStop : pc[j] = "done" /\ exitAt[j] # "stop_send"

\* C16 (as claimed): after STOP_EVENT is set an in-flight pipeline starts no
\* further remote submission: no send_raw_transaction call is made with a
\* nonce that next() handed out when the signal was already set.
C16_NoSubmissionAfterSignal ==
    \A i \in Wallets : lateSend[i] # "sent"

\* C17: the "Sent" line is written after send_raw_transaction accepted the
\* transaction and before the first get_transaction_receipt call: whoever
\* is polling or has polled has logged it, and it is logged only for an
\* accepted submission.
C17_SentLoggedBeforePoll ==
    \A i \in Wallets :
        /\ pc[i] \in {"pcall", "psleep"} => sentLogged[i]
        /\ pollLog[i] # <<>> => sentLogged[i]
        /\ sentLogged[i] =>
              /\ subLog[i] # <<>>
              /\ subLog[i][Len(subLog[i])] = "ok"

\* accepted and logged, the first poll not yet made
C17_Witness ==
    \E i \in Wallets :
        /\ pc[i] = "pcall"
        /\ pollLog[i] = <<>>
        /\ sentLogged[i]
        /\ subLog[i][Len(subLog[i])] = "ok"

\* C18 (as claimed): no worker makes the remote pending-count query while it
\* holds the NonceManager lock.
C18_NoQueryUnderLock ==
    \A i \in Wallets : lockOwner = i => ~queryUnderLock[i]

\* C18 (amended): inside next() the lock holder has queried the remote count
\* only when the call is the first allocation for its account; a next() for
\* an account already cached holds the lock without any remote call.
C18_QueryOnlyOnFirstAllocation ==
    \A i \in Wallets :
        (lockOwner = i /\ queryUnderLock[i]) =>
            allocEver[from_address(i)] = {}

\* a later next() for a cached account holds the lock and made no query,
\* while another worker waits for the lock
C18_Witness ==
    \E i, j \in Wallets :
        /\ lockOwner = i
        /\ pc[i] = "incr"
        /\ ~queryUnderLock[i]
        /\ allocEver[from_address(i)] # {}
        /\ pc[j] = "next"

\* C19: at most one submission per request is accepted: once
\* send_raw_transaction returned a hash the request only polls and returns,
\* whatever the polling gives, so the accepted call is its last submission.
C19_AtMostOneAccepted ==
    \A i \in Wallets :
        /\ Occurrences(subLog[i], "ok") <= 1
        /\ "ok" \in Outcomes(i) =>
              /\ subLog[i][Len(subLog[i])] = "ok"
              /\ pc[i] \in {"pcall", "psleep", "ret"}
              /\ exitAt[i] \in {"none", "receipt", "timeout", "stop_poll"}

\* accepted at the first attempt, the polling timed out, attempts were left:
\* the request returns without another submission
C19_Witness ==
    \E i \in Wallets :
        /\ pc[i] = "ret"
        /\ exitAt[i] = "timeout"
        /\ subLog[i] = <<"ok">>
        /\ MoreSendAttempts(attempt[i])

\* the wallets listed in run's failed list
FailedSet == {failed[k] : k \in 1..Len(failed)}

\* the requests whose polling returned a receipt
Confirmed == {i \in Wallets : pc[i] = "done" /\ exitAt[i] = "receipt"}

\* C20 (as claimed): a request counts as a success only if a poll returned
\* its receipt, and when the program ends every request that ended otherwise
\* (rejection, retries exhausted, cancellation, timeout) is in the failed list.
C20_OnlyReceiptIsSuccess ==
    /\ success <= Cardinality(Confirmed)
    /\ FailedSet \cap Confirmed = {}
    /\ mainPc \in {"done", "exited"} =>
          \A i \in Wallets :
              (pc[i] = "done" /\ exitAt[i] # "receipt") => i \in FailedSet

====
